---- MODULE Spec2Model ----
(***************************************************************************)
(* Model of the consensus-layer payload lifecycle driver (ApiService,      *)
(* crates/consensus/clayer/src/engine_api.rs) and of the block production  *)
(* scheduler (ClTask::poll, crates/consensus/clayer/src/task.rs).          *)
(*                                                                         *)
(* Option<T> is a sequence of length at most one: <<>> is None, <<x>> is   *)
(* Some(x).  A HashMap is a function whose DOMAIN is its key set.          *)
(* Every driver operation blocks its caller until its engine exchange has  *)
(* resolved, so one action is one whole call; the call, the requests it    *)
(* sent, the answers it received and its return value are recorded in      *)
(* call, sent, recv and ret.                                               *)
(***************************************************************************)
EXTENDS Integers, Sequences, FiniteSets, TLC

\* ---------------------------------------------------------------- bounds
NumBlocks == 2
NumPayloadIds == 2
MaxCalls == 5
MaxTicks == 4
NumStreams == 1
MaxDownloads == 4

BlockIds == 1..NumBlocks
PayloadIds == 1..NumPayloadIds
EventStreams == 1..NumStreams

\* ------------------------------------------------------------ data model
Some(x) == <<x>>
NoneOpt == <<>>
OptionOf(S) == {NoneOpt} \cup {Some(x) : x \in S}
IsSome(o) == o /= NoneOpt
Unwrap(o) == o[1]

EmptyMap == <<>>
MapInsert(m, k, v) == [x \in (DOMAIN m) \cup {k} |-> IF x = k THEN v ELSE m[x]]

LATEST_TAG == "latest"

PayloadStatusEnum == {"Valid", "Invalid", "Syncing", "Accepted"}
is_valid(status) == status = "Valid"

\* The ClRpcError variants the HTTP client produces for an unauthorized answer,
\* a transport failure and a malformed response.
ClRpcError == {"Auth", "HttpClient", "BadResponse"}

RpcOk(v) == [ok |-> TRUE, val |-> Some(v), err |-> NoneOpt]
RpcErr(e) == [ok |-> FALSE, val |-> NoneOpt, err |-> Some(e)]

\* ExecutionPayloadWrapperV2: the fields the driver reads.
ExecutionPayloads ==
    {[block_hash |-> b, parent_hash |-> p] : b \in BlockIds, p \in BlockIds}

\* ExecutionBlock: the field the driver reads.
ExecutionBlocks == {[block_hash |-> b] : b \in BlockIds}

PayloadStatuses ==
    [status : PayloadStatusEnum, latest_valid_hash : OptionOf(BlockIds)]

ForkchoiceUpdatedSet ==
    [payload_status : PayloadStatuses, payload_id : OptionOf(PayloadIds)]

\* ------------------------------------------------- the engine's answers
\* The engine is an external collaborator: each call is answered by an error
\* or by a well-typed value.  A block is never its own parent.  The status of a
\* forkchoice update names the head when Valid and no block otherwise (the
\* driver never reads it); the status of a new payload names the payload's
\* block or no block, whatever the status.  A forkchoice update sent without
\* build attributes starts no build job, so its answer carries no payload id.
GetBlockAnswers ==
    {RpcErr(e) : e \in ClRpcError}
        \cup {RpcOk(NoneOpt)} \cup {RpcOk(Some(x)) : x \in ExecutionBlocks}

FcuAnswers(head) ==
    {RpcErr(e) : e \in ClRpcError}
        \cup {RpcOk(f) : f \in {g \in ForkchoiceUpdatedSet :
                 g.payload_status.latest_valid_hash =
                     IF is_valid(g.payload_status.status) THEN Some(head) ELSE NoneOpt}}

FcuPlainAnswers(head) ==
    {a \in FcuAnswers(head) : a.ok => ~IsSome(Unwrap(a.val).payload_id)}

GetPayloadAnswers ==
    {RpcErr(e) : e \in ClRpcError}
        \cup {RpcOk(p) : p \in {q \in ExecutionPayloads :
                                   q.block_hash /= q.parent_hash}}

NewPayloadAnswers(payload) ==
    {RpcErr(e) : e \in ClRpcError}
        \cup {RpcOk(s) : s \in {t \in PayloadStatuses :
                 t.latest_valid_hash \in {NoneOpt, Some(payload.block_hash)}}}

\* ------------------------------------------------------- requests sent
ForkchoiceState_mut(last_block) ==
    [head_block_hash |-> last_block,
     finalized_block_hash |-> 0,
     safe_block_hash |-> 0]
ForkchoiceState(last_block) ==
    [head_block_hash |-> last_block,
     finalized_block_hash |-> last_block,
     safe_block_hash |-> last_block]

ReqGetBlockByNumber(tag) == [method |-> "get_block_by_number", arg |-> <<tag>>]
ReqForkchoiceUpdated(last_block) ==
    [method |-> "forkchoice_updated_v2",
     arg |-> <<ForkchoiceState(last_block), FALSE>>]
ReqForkchoiceUpdatedWithAttributes(last_block) ==
    [method |-> "forkchoice_updated_v2",
     arg |-> <<ForkchoiceState(last_block), TRUE>>]
ReqGetPayload(payload_id) == [method |-> "get_payload_v2", arg |-> <<payload_id>>]
ReqNewPayload(payload) == [method |-> "new_payload_v2", arg |-> <<payload>>]

\* --------------------------------------------------------- return values
ResultOk == [tag |-> "Ok", msg |-> <<>>, payload |-> NoneOpt]
ResultOkPayload(p) == [tag |-> "Ok", msg |-> <<>>, payload |-> Some(p)]
ResultErr(t) == [tag |-> t, msg |-> <<>>, payload |-> NoneOpt]
ResultApiError(where, e) == [tag |-> "ApiError", msg |-> <<where, e>>, payload |-> NoneOpt]
\* The call did not return: the calling thread panicked inside it.
ResultPanic == [tag |-> "Panic", msg |-> <<"TODO: check parent_hash consistent">>,
                payload |-> NoneOpt]

\* ----------------------------------------------------------------- state
VARIABLES
    latest_committed_id,      \* ApiService.latest_committed_id : Option<B256>
    next_payload_id_pairs,    \* ApiService.next_payload_id_pairs : HashMap
    proposing_payload_pairs,  \* ApiService.proposing_payload_pairs : HashMap
    thread,                   \* the thread owning the ApiService
    call,                     \* the last driver call: [op, arg]
    sent,                     \* the engine requests that call sent, in order
    recv,                     \* the engine answers that call received, in order
    ret,                      \* what that call returned
    ncalls,                   \* number of driver calls made
    pre,                      \* the driver's fields when that call was made
    again,                    \* history: Some(tag the previous call returned) when this
                              \* call repeats it (same operation, same argument), else None
    initialized_ids,          \* history: ids resolved by successful initialize_block calls
    summarized_ids,           \* history: parents for which a summarize_block succeeded
    finalized_ids,            \* history: block ids of payloads finalize_block returned
    returned_payloads,        \* history: per block id, the payload the last successful
                              \* finalize_block producing it returned
    queued,                   \* ClTask.queued : VecDeque<u64>
    insert_task,              \* ClTask.insert_task : Option<BoxFuture>
    pipe_line_events,         \* ClTask.pipe_line_events : Option<stream>
    pc,                       \* where ClTask::poll stands ("idle": not being polled)
    enqueued,                 \* history: every attempt the ticker pushed, in order
    started,                  \* history: timestamps of the builds started, in order
    completed,                \* history: the builds that completed, in order
    instance,                 \* NodeCommand.instance : u16
    rpc,                      \* NodeCommand.rpc: auth_port, http_port, ws_port : u16
    adjusted,                 \* "parsed", then "adjusted" or "panicked"
    tip,                      \* fetch_tip's argument tip : BlockHashOrNumber
    database,                 \* what the provider answers fetch_tip's lookup
    fetch_pc,                 \* where fetch_tip stands: "called", "loop", "returned"
    downloads,                \* number of get_single_header requests fetch_tip made
    downloaded,               \* the answer to the last of them (None before the first)
    fetch_ret                 \* what fetch_tip returned (None until it returns)

driver == <<latest_committed_id, next_payload_id_pairs, proposing_payload_pairs>>
history == <<initialized_ids, summarized_ids, finalized_ids, returned_payloads>>
vars == <<latest_committed_id, next_payload_id_pairs, proposing_payload_pairs,
          thread, call, sent, recv, ret, ncalls, pre, again,
          initialized_ids, summarized_ids, finalized_ids, returned_payloads,
          queued, insert_task, pipe_line_events, pc, enqueued, started, completed,
          instance, rpc, adjusted,
          tip, database, fetch_pc, downloads, downloaded, fetch_ret>>
api_service == <<latest_committed_id, next_payload_id_pairs, proposing_payload_pairs,
                 thread, call, sent, recv, ret, ncalls, pre, again,
                 initialized_ids, summarized_ids, finalized_ids, returned_payloads>>
cl_task == <<queued, insert_task, pipe_line_events, pc, enqueued, started, completed>>
node_command == <<instance, rpc, adjusted,
                  tip, database, fetch_pc, downloads, downloaded, fetch_ret>>

NoCall == [op |-> "new", arg |-> <<>>]

\* The driver and the scheduler as constructed.
ClInit ==
    /\ latest_committed_id = NoneOpt
    /\ next_payload_id_pairs = EmptyMap
    /\ proposing_payload_pairs = EmptyMap
    /\ thread = "running"
    /\ call = NoCall
    /\ sent = <<>>
    /\ recv = <<>>
    /\ ret = ResultOk
    /\ ncalls = 0
    /\ pre = <<NoneOpt, EmptyMap, EmptyMap>>
    /\ again = NoneOpt
    /\ initialized_ids = {}
    /\ summarized_ids = {}
    /\ finalized_ids = {}
    /\ returned_payloads = EmptyMap
    /\ queued = <<>>
    /\ insert_task = NoneOpt
    /\ pipe_line_events = NoneOpt
    /\ pc = "idle"
    /\ enqueued = <<>>
    /\ started = <<>>
    /\ completed = <<>>

\* The rpc ports and the instance number with no --instance given.
DEFAULT_AUTH_PORT == 8551
DEFAULT_HTTP_PORT == 8545
DEFAULT_WS_PORT == 8546
DefaultRpc ==
    [auth_port |-> DEFAULT_AUTH_PORT, http_port |-> DEFAULT_HTTP_PORT,
     ws_port |-> DEFAULT_WS_PORT]
ParsedDefault ==
    /\ instance = 1
    /\ rpc = DefaultRpc
    /\ adjusted = "parsed"

\* fetch_tip not called.
FetchIdle ==
    /\ tip = <<"Number", 1>>
    /\ database = [ok |-> TRUE, val |-> NoneOpt]
    /\ fetch_pc = "returned"
    /\ downloads = 0
    /\ downloaded = NoneOpt
    /\ fetch_ret = NoneOpt

Init == ClInit /\ ParsedDefault /\ FetchIdle

\* A call can be made: the owning thread is alive and inside no other call.
CanCall_reentrant_mut == ncalls < MaxCalls
CanCall == thread = "running" /\ ncalls < MaxCalls

Called(op, arg) ==
    /\ call' = [op |-> op, arg |-> arg]
    /\ ncalls' = ncalls + 1
    /\ pre' = driver
    /\ again' = IF call = [op |-> op, arg |-> arg] THEN Some(ret.tag) ELSE NoneOpt
    /\ UNCHANGED <<cl_task, node_command>>

\* ------------------------------------------- the one-shot completion signal
\* What the asynchronous side sends on the oneshot channel: an ApiServiceError
\* value, whose Ok variant carries an AsyncResultType.
AsyncOk(variant, v) == [tag |-> "Ok", msg |-> <<>>, variant |-> variant, val |-> Some(v)]
AsyncErr(t, m) == [tag |-> t, msg |-> m, variant |-> "", val |-> NoneOpt]

\* An exchange: the requests sent, the answers received, and the signal (None
\* when the sender is dropped without sending).
Exchange_unanswered_mut(s, r, sig) ==
    [sent |-> s, recv |-> SubSeq(r, 1, Len(r) - 1), signal |-> sig]
Exchange(s, r, sig) == [sent |-> s, recv |-> r, signal |-> sig]

\* Err(result) of a call whose signal carried a non-Ok ApiServiceError.
ResultOfSignal_mut(result) == [tag |-> result.tag, msg |-> <<>>, payload |-> NoneOpt]
ResultOfSignal(result) == [tag |-> result.tag, msg |-> result.msg, payload |-> NoneOpt]

\* ------------------------------------------------------ initialize_block
\* The block id initialize_block works on: previous_id when given, otherwise
\* the hash of the block the engine reports for "latest" (None when the lookup
\* failed or found no block).
resolve_block_id(previous_id, blk) ==
    IF IsSome(previous_id) THEN previous_id
    ELSE IF blk.ok /\ IsSome(Unwrap(blk.val))
         THEN Some(Unwrap(Unwrap(blk.val)).block_hash)
         ELSE NoneOpt

\* The check of the forkchoice answer's status in initialize_block.
initialize_status_accepted_mut(forkchoice_updated_result) == TRUE
initialize_status_ok(forkchoice_updated_result) ==
    is_valid(forkchoice_updated_result.payload_status.status)

\* The value initialize_block stores in latest_committed_id for BlockId(id).
initialize_new_head_mut(id) == NoneOpt
initialize_new_head(id) == Some(id)

\* What initialize_block's async side sends when the engine reports no block.
initialize_no_block_error_mut == AsyncErr("BlockNotReady", <<>>)
initialize_no_block_error == AsyncErr("UnknownBlock", <<"get block return none">>)

\* The async block of initialize_block.
initialize_block_async(previous_id, blk, fcu) ==
    LET lookup == ~IsSome(previous_id)
        s1 == IF lookup THEN <<ReqGetBlockByNumber(LATEST_TAG)>> ELSE <<>>
        r1 == IF lookup THEN <<blk>> ELSE <<>>
        block_id == resolve_block_id(previous_id, blk)
    IN  IF lookup /\ ~blk.ok
        THEN Exchange(s1, r1,
                 Some(AsyncErr("ApiError", <<"get block by number error", Unwrap(blk.err)>>)))
        ELSE IF lookup /\ ~IsSome(Unwrap(blk.val))
        THEN Exchange(s1, r1, Some(initialize_no_block_error))
        ELSE LET s2 == Append(s1, ReqForkchoiceUpdated(Unwrap(block_id)))
                 r2 == Append(r1, fcu)
             IN  IF ~fcu.ok
                 THEN Exchange(s2, r2,
                          Some(AsyncErr("ApiError", <<"forkchoice_updated", Unwrap(fcu.err)>>)))
                 ELSE IF ~initialize_status_ok(Unwrap(fcu.val))
                 THEN Exchange(s2, r2, Some(AsyncErr("BlockNotReady", <<>>)))
                 ELSE Exchange(s2, r2, Some(AsyncOk("BlockId", Unwrap(block_id))))

\* The blocking side of initialize_block: the match on rx.blocking_recv().
initialize_block_recv(signal) ==
    IF ~IsSome(signal)
    THEN /\ ret' = ResultErr("Other")
         /\ UNCHANGED <<driver, history>>
    ELSE LET result == Unwrap(signal)
         IN  IF result.tag = "Ok"
             THEN IF result.variant = "BlockId"
                  THEN /\ latest_committed_id' = initialize_new_head(Unwrap(result.val))
                       /\ ret' = ResultOk
                       /\ initialized_ids' = initialized_ids \cup {Unwrap(result.val)}
                       /\ UNCHANGED <<next_payload_id_pairs, proposing_payload_pairs,
                                      summarized_ids, finalized_ids, returned_payloads>>
                  ELSE /\ ret' = ResultErr("MismatchAsyncResultType")
                       /\ UNCHANGED <<driver, history>>
             ELSE /\ ret' = ResultOfSignal(result)
                  /\ UNCHANGED <<driver, history>>

\* initialize_block ending the thread when the engine's status is not Valid.
initialize_block_fatal_mut(previous_id) ==
    /\ CanCall
    /\ Called("initialize_block", previous_id)
    /\ \E blk \in (IF IsSome(previous_id) THEN {RpcOk(NoneOpt)} ELSE GetBlockAnswers) :
         LET block_id == resolve_block_id(previous_id, blk)
         IN  \E fcu \in (IF IsSome(block_id) THEN FcuPlainAnswers(Unwrap(block_id))
                                            ELSE {RpcErr("HttpClient")}) :
               LET x == initialize_block_async(previous_id, blk, fcu)
               IN  /\ sent' = x.sent
                   /\ recv' = x.recv
                   /\ initialize_block_recv(x.signal)
    /\ thread' = IF ret' = ResultErr("BlockNotReady") THEN "panicked" ELSE thread

initialize_block(previous_id) ==
    /\ CanCall
    /\ Called("initialize_block", previous_id)
    /\ \E blk \in (IF IsSome(previous_id) THEN {RpcOk(NoneOpt)} ELSE GetBlockAnswers) :
         LET block_id == resolve_block_id(previous_id, blk)
         IN  \E fcu \in (IF IsSome(block_id) THEN FcuPlainAnswers(Unwrap(block_id))
                                            ELSE {RpcErr("HttpClient")}) :
               LET x == initialize_block_async(previous_id, blk, fcu)
               IN  /\ sent' = x.sent
                   /\ recv' = x.recv
                   /\ initialize_block_recv(x.signal)
    /\ UNCHANGED thread

\* ------------------------------------------------------- summarize_block
summarize_block_async(previous_id, fcu) ==
    LET s == <<ReqForkchoiceUpdatedWithAttributes(previous_id)>>
        r == <<fcu>>
    IN  IF ~fcu.ok
        THEN Exchange(s, r, Some(AsyncErr("ApiError",
                 <<"forkchoice_updated_with_attributes", Unwrap(fcu.err)>>)))
        ELSE Exchange(s, r, Some(AsyncOk("ForkchoiceUpdated", Unwrap(fcu.val))))

\* The check of the forkchoice answer's status in summarize_block.
summarize_status_unchecked_mut(forkchoice_updated) == TRUE
summarize_status_ok(forkchoice_updated) ==
    is_valid(forkchoice_updated.payload_status.status)

\* next_payload_id_pairs.insert(previous_id, payload_id).
summarize_record_keeping_mut(pairs, previous_id, payload_id) ==
    IF previous_id \in DOMAIN pairs THEN pairs
    ELSE MapInsert(pairs, previous_id, payload_id)
summarize_record(pairs, previous_id, payload_id) ==
    MapInsert(pairs, previous_id, payload_id)

summarize_block_recv(previous_id, signal) ==
    IF ~IsSome(signal)
    THEN /\ ret' = ResultErr("Other")
         /\ UNCHANGED <<driver, history>>
    ELSE LET result == Unwrap(signal)
         IN  IF result.tag = "Ok"
             THEN IF result.variant = "ForkchoiceUpdated"
                  THEN LET forkchoice_updated == Unwrap(result.val)
                       IN  IF ~summarize_status_ok(forkchoice_updated)
                           THEN /\ ret' = ResultErr("BlockNotReady")
                                /\ UNCHANGED <<driver, history>>
                           ELSE IF IsSome(forkchoice_updated.payload_id)
                           THEN /\ next_payload_id_pairs' =
                                       summarize_record(next_payload_id_pairs, previous_id,
                                                        Unwrap(forkchoice_updated.payload_id))
                                /\ ret' = ResultOk
                                /\ summarized_ids' = summarized_ids \cup {previous_id}
                                /\ UNCHANGED <<latest_committed_id, proposing_payload_pairs,
                                               initialized_ids, finalized_ids, returned_payloads>>
                           ELSE /\ ret' = ResultErr("BlockNotReady")
                                /\ UNCHANGED <<driver, history>>
                  ELSE /\ ret' = ResultErr("MismatchAsyncResultType")
                       /\ UNCHANGED <<driver, history>>
             ELSE /\ ret' = ResultOfSignal(result)
                  /\ UNCHANGED <<driver, history>>

\* The head summarize_block builds on: Some(latest_committed_id) or the early
\* return with NoChainHead.
summarize_has_head == IsSome(latest_committed_id)

\* What summarize_block returns when there is no head.
summarize_no_head_error_mut == ResultErr("BlockNotReady")
summarize_no_head_error == ResultErr("NoChainHead")

summarize_block ==
    /\ CanCall
    /\ Called("summarize_block", <<>>)
    /\ IF ~summarize_has_head
       THEN /\ sent' = <<>>
            /\ recv' = <<>>
            /\ ret' = summarize_no_head_error
            /\ UNCHANGED <<driver, history>>
       ELSE LET previous_id == Unwrap(latest_committed_id)
            IN  \E fcu \in FcuAnswers(previous_id) :
                  LET x == summarize_block_async(previous_id, fcu)
                  IN  /\ sent' = x.sent
                      /\ recv' = x.recv
                      /\ summarize_block_recv(previous_id, x.signal)
    /\ UNCHANGED thread

\* -------------------------------------------------------- finalize_block
\* The lookup at the head of finalize_block: the tag of the early return, or
\* "Ok" when (previous_id, payload_id) is found.
finalize_lookup_mut ==
    IF ~IsSome(latest_committed_id) THEN "NoChainHead"
    ELSE IF Unwrap(latest_committed_id) \notin DOMAIN next_payload_id_pairs
    THEN "NoChainHead"
    ELSE "Ok"
\* The lookup answering BlockNotReady for a missing head as well.
finalize_lookup_headless_mut ==
    IF ~IsSome(latest_committed_id) THEN "BlockNotReady"
    ELSE IF Unwrap(latest_committed_id) \notin DOMAIN next_payload_id_pairs
    THEN "BlockNotReady"
    ELSE "Ok"
finalize_lookup ==
    IF ~IsSome(latest_committed_id) THEN "NoChainHead"
    ELSE IF Unwrap(latest_committed_id) \notin DOMAIN next_payload_id_pairs
    THEN "BlockNotReady"
    ELSE "Ok"

\* The AsyncResultType variant finalize_block's async side wraps the payload in.
finalize_sent_variant_mut == "ForkchoiceUpdated"
finalize_sent_variant == "ExecutionPayload"

finalize_block_async(payload_id, gp) ==
    LET s == <<ReqGetPayload(payload_id)>>
        r == <<gp>>
    IN  IF gp.ok
        THEN Exchange(s, r, Some(AsyncOk(finalize_sent_variant, Unwrap(gp.val))))
        ELSE Exchange(s, r, Some(AsyncErr("ApiError", <<"get_payload_v2", Unwrap(gp.err)>>)))

\* The "check parent_hash consistent" comparison.
parent_hash_consistent_mut(last_block_id, previous_id) == TRUE
parent_hash_consistent(last_block_id, previous_id) == last_block_id = previous_id

\* The key finalize_block files the payload under.
payload_block_id_mut(playload) == playload.parent_hash
payload_block_id(playload) == playload.block_hash

\* finalize_block_recv taking the pending payload id out of the map.
finalize_block_recv_consuming_mut(previous_id, payload_id, signal) ==
    IF ~IsSome(signal)
    THEN /\ ret' = ResultErr("Other")
         /\ UNCHANGED <<driver, history, thread>>
    ELSE LET result == Unwrap(signal)
         IN  IF result.tag = "Ok"
             THEN IF result.variant = "ExecutionPayload"
                  THEN LET playload == Unwrap(result.val)
                           block_id == payload_block_id(playload)
                           last_block_id == playload.parent_hash
                       IN  IF ~parent_hash_consistent(last_block_id, previous_id)
                           THEN \* panic!("TODO: check parent_hash consistent")
                                /\ thread' = "panicked"
                                /\ ret' = ResultPanic
                                /\ UNCHANGED <<driver, history>>
                           ELSE /\ proposing_payload_pairs' =
                                       MapInsert(proposing_payload_pairs, block_id,
                                                 <<payload_id, playload>>)
                                /\ ret' = ResultOkPayload(playload)
                                /\ finalized_ids' = finalized_ids \cup {playload.block_hash}
                                /\ returned_payloads' =
                                       MapInsert(returned_payloads, playload.block_hash, playload)
                                /\ next_payload_id_pairs' =
                                       [k \in DOMAIN next_payload_id_pairs \ {previous_id} |->
                                            next_payload_id_pairs[k]]
                                /\ UNCHANGED <<latest_committed_id,
                                               initialized_ids, summarized_ids, thread>>
                  ELSE /\ ret' = ResultErr("MismatchAsyncResultType")
                       /\ UNCHANGED <<driver, history, thread>>
             ELSE /\ ret' = ResultOfSignal(result)
                  /\ UNCHANGED <<driver, history, thread>>

\* The blocking side of finalize_block.
finalize_block_recv(previous_id, payload_id, signal) ==
    IF ~IsSome(signal)
    THEN /\ ret' = ResultErr("Other")
         /\ UNCHANGED <<driver, history, thread>>
    ELSE LET result == Unwrap(signal)
         IN  IF result.tag = "Ok"
             THEN IF result.variant = "ExecutionPayload"
                  THEN LET playload == Unwrap(result.val)
                           block_id == payload_block_id(playload)
                           last_block_id == playload.parent_hash
                       IN  IF ~parent_hash_consistent(last_block_id, previous_id)
                           THEN \* panic!("TODO: check parent_hash consistent")
                                /\ thread' = "panicked"
                                /\ ret' = ResultPanic
                                /\ UNCHANGED <<driver, history>>
                           ELSE /\ proposing_payload_pairs' =
                                       MapInsert(proposing_payload_pairs, block_id,
                                                 <<payload_id, playload>>)
                                /\ ret' = ResultOkPayload(playload)
                                /\ finalized_ids' = finalized_ids \cup {playload.block_hash}
                                /\ returned_payloads' =
                                       MapInsert(returned_payloads, playload.block_hash, playload)
                                /\ UNCHANGED <<latest_committed_id, next_payload_id_pairs,
                                               initialized_ids, summarized_ids, thread>>
                  ELSE /\ ret' = ResultErr("MismatchAsyncResultType")
                       /\ UNCHANGED <<driver, history, thread>>
             ELSE /\ ret' = ResultOfSignal(result)
                  /\ UNCHANGED <<driver, history, thread>>

finalize_block ==
    /\ CanCall
    /\ Called("finalize_block", <<>>)
    /\ IF finalize_lookup /= "Ok"
       THEN /\ sent' = <<>>
            /\ recv' = <<>>
            /\ ret' = ResultErr(finalize_lookup)
            /\ UNCHANGED <<driver, history, thread>>
       ELSE LET previous_id == Unwrap(latest_committed_id)
                payload_id == next_payload_id_pairs[previous_id]
            IN  \E gp \in GetPayloadAnswers :
                  LET x == finalize_block_async(payload_id, gp)
                  IN  /\ sent' = x.sent
                      /\ recv' = x.recv
                      /\ finalize_block_recv(previous_id, payload_id, x.signal)

\* ---------------------------------------------------------- commit_block
\* proposing_payload_pairs.get(&block_id) is Some.
commit_lookup(block_id) == block_id \in DOMAIN proposing_payload_pairs

\* commit_block's async side returning on an engine error without sending.
commit_block_async_silent_mut(payload_id, execution_payload, np) ==
    LET s == <<ReqNewPayload(execution_payload)>>
        r == <<np>>
    IN  IF ~np.ok
        THEN Exchange(s, r, NoneOpt)
        ELSE Exchange(s, r, Some(AsyncOk("ForkchoiceUpdated",
                 [payload_status |-> Unwrap(np.val), payload_id |-> Some(payload_id)])))

commit_block_async(payload_id, execution_payload, np) ==
    LET s == <<ReqNewPayload(execution_payload)>>
        r == <<np>>
    IN  IF ~np.ok
        THEN Exchange(s, r, Some(AsyncErr("ApiError", <<"new_payload", Unwrap(np.err)>>)))
        ELSE Exchange(s, r, Some(AsyncOk("ForkchoiceUpdated",
                 [payload_status |-> Unwrap(np.val), payload_id |-> Some(payload_id)])))

\* commit_block_recv with the latest_valid_hash check left out.
commit_block_recv_mut(signal) ==
    IF ~IsSome(signal)
    THEN ResultErr("Other")
    ELSE LET result == Unwrap(signal)
         IN  IF result.tag = "Ok"
             THEN IF result.variant = "ForkchoiceUpdated"
                  THEN IF is_valid(Unwrap(result.val).payload_status.status)
                       THEN ResultOk
                       ELSE ResultErr("BlockNotReady")
                  ELSE ResultErr("MismatchAsyncResultType")
             ELSE ResultOfSignal(result)

\* The blocking side of commit_block: its return value (no state is written).
commit_block_recv(signal) ==
    IF ~IsSome(signal)
    THEN ResultErr("Other")
    ELSE LET result == Unwrap(signal)
         IN  IF result.tag = "Ok"
             THEN IF result.variant = "ForkchoiceUpdated"
                  THEN LET forkchoice_updated == Unwrap(result.val)
                       IN  IF is_valid(forkchoice_updated.payload_status.status)
                           THEN IF IsSome(forkchoice_updated.payload_status.latest_valid_hash)
                                THEN ResultOk
                                ELSE ResultErr("BlockNotReady")
                           ELSE ResultErr("BlockNotReady")
                  ELSE ResultErr("MismatchAsyncResultType")
             ELSE ResultOfSignal(result)

\* commit_block moving the head to the block it committed.
commit_block_advancing_mut(block_id) ==
    /\ CanCall
    /\ Called("commit_block", <<block_id>>)
    /\ IF ~commit_lookup(block_id)
       THEN /\ sent' = <<>>
            /\ recv' = <<>>
            /\ ret' = ResultErr("BlockNotReady")
            /\ UNCHANGED latest_committed_id
       ELSE LET payload_id == proposing_payload_pairs[block_id][1]
                execution_payload == proposing_payload_pairs[block_id][2]
            IN  \E np \in NewPayloadAnswers(execution_payload) :
                  LET x == commit_block_async(payload_id, execution_payload, np)
                  IN  /\ sent' = x.sent
                      /\ recv' = x.recv
                      /\ ret' = commit_block_recv(x.signal)
                      /\ latest_committed_id' =
                             IF commit_block_recv(x.signal).tag = "Ok"
                             THEN Some(block_id) ELSE latest_committed_id
    /\ UNCHANGED <<next_payload_id_pairs, proposing_payload_pairs, history, thread>>

\* commit_block taking the payload it committed out of the map.
commit_block_consuming_mut(block_id) ==
    /\ CanCall
    /\ Called("commit_block", <<block_id>>)
    /\ IF ~commit_lookup(block_id)
       THEN /\ sent' = <<>>
            /\ recv' = <<>>
            /\ ret' = ResultErr("BlockNotReady")
            /\ UNCHANGED proposing_payload_pairs
       ELSE LET payload_id == proposing_payload_pairs[block_id][1]
                execution_payload == proposing_payload_pairs[block_id][2]
            IN  \E np \in NewPayloadAnswers(execution_payload) :
                  LET x == commit_block_async(payload_id, execution_payload, np)
                  IN  /\ sent' = x.sent
                      /\ recv' = x.recv
                      /\ ret' = commit_block_recv(x.signal)
                      /\ proposing_payload_pairs' =
                             IF commit_block_recv(x.signal).tag = "Ok"
                             THEN [k \in DOMAIN proposing_payload_pairs \ {block_id} |->
                                       proposing_payload_pairs[k]]
                             ELSE proposing_payload_pairs
    /\ UNCHANGED <<latest_committed_id, next_payload_id_pairs, history, thread>>

commit_block(block_id) ==
    /\ CanCall
    /\ Called("commit_block", <<block_id>>)
    /\ IF ~commit_lookup(block_id)
       THEN /\ sent' = <<>>
            /\ recv' = <<>>
            /\ ret' = ResultErr("BlockNotReady")
       ELSE LET payload_id == proposing_payload_pairs[block_id][1]
                execution_payload == proposing_payload_pairs[block_id][2]
            IN  \E np \in NewPayloadAnswers(execution_payload) :
                  LET x == commit_block_async(payload_id, execution_payload, np)
                  IN  /\ sent' = x.sent
                      /\ recv' = x.recv
                      /\ ret' = commit_block_recv(x.signal)
    /\ UNCHANGED <<driver, history, thread>>

\* ------------------------------------------------- the hooks returning Ok(())
NoEngineCall ==
    /\ sent' = <<>>
    /\ recv' = <<>>
    /\ ret' = ResultOk
    /\ UNCHANGED <<driver, history, thread>>

\* cancel_block dropping the pending payload id of the current head.
cancel_block_releasing_mut ==
    /\ CanCall
    /\ Called("cancel_block", <<>>)
    /\ sent' = <<>>
    /\ recv' = <<>>
    /\ ret' = ResultOk
    /\ next_payload_id_pairs' =
           [k \in (DOMAIN next_payload_id_pairs) \ {x \in BlockIds : Some(x) = latest_committed_id}
               |-> next_payload_id_pairs[k]]
    /\ UNCHANGED <<latest_committed_id, proposing_payload_pairs, history, thread>>

cancel_block ==
    /\ CanCall
    /\ Called("cancel_block", <<>>)
    /\ NoEngineCall

check_blocks(priority) ==
    /\ CanCall
    /\ Called("check_blocks", priority)
    /\ NoEngineCall

fail_block(block_id) ==
    /\ CanCall
    /\ Called("fail_block", <<block_id>>)
    /\ NoEngineCall

announce_block(block_id) ==
    /\ CanCall
    /\ Called("announce_block", <<block_id>>)
    /\ NoEngineCall

sync_block(block_id) ==
    /\ CanCall
    /\ Called("sync_block", <<block_id>>)
    /\ NoEngineCall

\* The priority lists check_blocks is called with.
Priorities == {<<>>} \cup {<<b>> : b \in BlockIds}

\* ------------------------------------------------------ the driver's runs
Next ==
    \/ \E previous_id \in OptionOf(BlockIds) : initialize_block(previous_id)
    \/ summarize_block
    \/ finalize_block
    \/ \E block_id \in BlockIds : commit_block(block_id)
    \/ cancel_block
    \/ \E priority \in Priorities : check_blocks(priority)
    \/ \E block_id \in BlockIds : fail_block(block_id)
    \/ \E block_id \in BlockIds : announce_block(block_id)
    \/ \E block_id \in BlockIds : sync_block(block_id)

Spec == Init /\ [][Next]_vars

\* ------------------------------------------- engine requests never answered
\* rt.block_on has no timeout: a call whose engine request gets no answer
\* stays inside block_on.  ret then holds no return value.
ResultBlocked == [tag |-> "Blocked", msg |-> <<>>, payload |-> NoneOpt]
Blocks(s, r) ==
    /\ sent' = s
    /\ recv' = r
    /\ ret' = ResultBlocked
    /\ thread' = "blocked"
    /\ UNCHANGED <<driver, history>>

\* initialize_block whose get_block_by_number, or whose forkchoice_updated,
\* is never answered.
initialize_block_unanswered(previous_id) ==
    /\ CanCall
    /\ Called("initialize_block", previous_id)
    /\ \/ /\ ~IsSome(previous_id)
          /\ Blocks(<<ReqGetBlockByNumber(LATEST_TAG)>>, <<>>)
       \/ /\ ~IsSome(previous_id)
          /\ \E x \in ExecutionBlocks :
                Blocks(<<ReqGetBlockByNumber(LATEST_TAG), ReqForkchoiceUpdated(x.block_hash)>>,
                       <<RpcOk(Some(x))>>)
       \/ /\ IsSome(previous_id)
          /\ Blocks(<<ReqForkchoiceUpdated(Unwrap(previous_id))>>, <<>>)

summarize_block_unanswered ==
    /\ CanCall
    /\ summarize_has_head
    /\ Called("summarize_block", <<>>)
    /\ Blocks(<<ReqForkchoiceUpdatedWithAttributes(Unwrap(latest_committed_id))>>, <<>>)

finalize_block_unanswered ==
    /\ CanCall
    /\ finalize_lookup = "Ok"
    /\ Called("finalize_block", <<>>)
    /\ Blocks(<<ReqGetPayload(next_payload_id_pairs[Unwrap(latest_committed_id)])>>, <<>>)

commit_block_unanswered(block_id) ==
    /\ CanCall
    /\ commit_lookup(block_id)
    /\ Called("commit_block", <<block_id>>)
    /\ Blocks(<<ReqNewPayload(proposing_payload_pairs[block_id][2])>>, <<>>)

HangNext ==
    \/ Next
    \/ \E previous_id \in OptionOf(BlockIds) : initialize_block_unanswered(previous_id)
    \/ summarize_block_unanswered
    \/ finalize_block_unanswered
    \/ \E block_id \in BlockIds : commit_block_unanswered(block_id)

HangSpec == Init /\ [][HangNext]_vars

\* --------------------------------------------------------- ClTask::start
\* ApiService::new: the fields of a driver just constructed.
ApiService_new == <<NoneOpt, EmptyMap, EmptyMap>>

\* What initialize_block returns for the signal it received.
initialize_block_returns(signal) ==
    IF ~IsSome(signal)
    THEN ResultErr("Other")
    ELSE LET result == Unwrap(signal)
         IN  IF result.tag = "Ok"
             THEN IF result.variant = "BlockId" THEN ResultOk
                  ELSE ResultErr("MismatchAsyncResultType")
             ELSE ResultOfSignal(result)

\* One iteration of the loop of start, run by the thread the node spawns:
\* ApiService::new(self.api.clone()).initialize_block(None).  The driver is a
\* temporary of the statement; the three fields hold what it held when the
\* call returned, and pre what it held when the call began.
start ==
    /\ CanCall
    /\ call' = [op |-> "initialize_block", arg |-> NoneOpt]
    /\ ncalls' = ncalls + 1
    /\ pre' = ApiService_new
    /\ again' = IF call = [op |-> "initialize_block", arg |-> NoneOpt]
                THEN Some(ret.tag) ELSE NoneOpt
    /\ \E blk \in GetBlockAnswers :
         LET block_id == resolve_block_id(NoneOpt, blk)
         IN  \E fcu \in (IF IsSome(block_id) THEN FcuPlainAnswers(Unwrap(block_id))
                                            ELSE {RpcErr("HttpClient")}) :
               LET x == initialize_block_async(NoneOpt, blk, fcu)
                   returned == initialize_block_returns(x.signal)
               IN  /\ sent' = x.sent
                   /\ recv' = x.recv
                   /\ ret' = returned
                   /\ latest_committed_id' =
                          IF returned.tag = "Ok"
                          THEN initialize_new_head(Unwrap(Unwrap(x.signal).val))
                          ELSE ApiService_new[1]
                   /\ initialized_ids' =
                          IF returned.tag = "Ok"
                          THEN initialized_ids \cup {Unwrap(Unwrap(x.signal).val)}
                          ELSE initialized_ids
    /\ next_payload_id_pairs' = ApiService_new[2]
    /\ proposing_payload_pairs' = ApiService_new[3]
    /\ UNCHANGED <<summarized_ids, finalized_ids, returned_payloads, thread>>
    /\ UNCHANGED <<cl_task, node_command>>

StartSpec == Init /\ [][start]_vars

\* ---------------------------------------------------------- ClTask::poll
\* ClTask::poll is the loop 'first_layer; pc is the statement it stands at:
\* "ticker" (the ticker poll), "select" (the insert_task.is_none() block),
\* "drive" (the poll of insert_task), "idle" (poll returned Poll::Pending).

\* set_pipeline_events, called by the node between build() and the start of
\* the task, before any pass has seen the ticker fire.
set_pipeline_events(events) ==
    /\ pc = "idle"
    /\ enqueued = <<>>
    /\ pipe_line_events' = Some(events)
    /\ UNCHANGED <<queued, insert_task, pc, enqueued, started, completed>>
    /\ UNCHANGED <<api_service, node_command>>

\* The executor polls the task.
poll_enter ==
    /\ pc = "idle"
    /\ pc' = "ticker"
    /\ UNCHANGED <<queued, insert_task, pipe_line_events, enqueued, started, completed>>
    /\ UNCHANGED <<api_service, node_command>>

\* block_publishing_ticker.poll(cx): Ready(x) with the time of the firing, or
\* Pending.  Firings carry increasing timestamps.
ticker_poll == {NoneOpt} \cup
    (IF Len(enqueued) < MaxTicks THEN {Some(Len(enqueued) + 1)} ELSE {})

\* this.queued.push_back(x).
push_if_empty_mut(q, x) == IF q = <<>> THEN Append(q, x) ELSE q
push_back(q, x) == Append(q, x)

poll_ticker ==
    /\ pc = "ticker"
    /\ \E x \in ticker_poll :
         IF IsSome(x)
         THEN /\ queued' = push_back(queued, Unwrap(x))
              /\ enqueued' = Append(enqueued, Unwrap(x))
         ELSE UNCHANGED <<queued, enqueued>>
    /\ pc' = "select"
    /\ UNCHANGED <<insert_task, pipe_line_events, started, completed>>
    /\ UNCHANGED <<api_service, node_command>>

\* The future built at "define task": the driver phases it runs, the payload it
\* forwards to the decision sink, and its output.  Every statement of the block
\* but its tail expression `events` is commented out.
insert_task_future(timestamp, events) ==
    [timestamp |-> timestamp, phases |-> <<>>, forwarded |-> NoneOpt, output |-> events]

\* The guard of the block that starts a build.
insert_task_is_none_mut == TRUE
insert_task_is_none == insert_task = NoneOpt

\* queued.pop_front(): the attempt taken and the backlog left.
pop_back_mut(q) == [item |-> q[Len(q)], rest |-> SubSeq(q, 1, Len(q) - 1)]
pop_front(q) == [item |-> Head(q), rest |-> Tail(q)]

\* this.pipe_line_events.take(): the value taken and what the slot is left with.
clone_events_mut(slot) == [taken |-> slot, left |-> slot]
take_events(slot) == [taken |-> slot, left |-> NoneOpt]

poll_select ==
    /\ pc = "select"
    /\ IF insert_task_is_none
       THEN IF queued = <<>>
            THEN \* nothing to insert: break
                 /\ pc' = "idle"
                 /\ UNCHANGED <<queued, insert_task, pipe_line_events, started>>
            ELSE LET p == pop_front(queued)
                     timestamp == p.item
                     events == take_events(pipe_line_events).taken
                 IN  /\ queued' = p.rest
                     /\ pipe_line_events' = take_events(pipe_line_events).left
                     /\ insert_task' = Some(insert_task_future(timestamp, events))
                     /\ started' = Append(started, timestamp)
                     /\ pc' = "drive"
       ELSE /\ pc' = "drive"
            /\ UNCHANGED <<queued, insert_task, pipe_line_events, started>>
    /\ UNCHANGED <<enqueued, completed>>
    /\ UNCHANGED <<api_service, node_command>>

\* fut.poll_unpin(cx) on the BoxFuture in the slot: the two outcomes the match
\* handles.  (The block as written has no await, so its first poll is Ready;
\* the slot logic is written for, and modelled with, both.)
poll_unpin == {"Ready", "Pending"}

\* The Poll::Ready arm has no break: the loop goes round to the ticker poll.
ready_breaks_mut == "idle"
ready_continues == "ticker"

\* The Poll::Pending arm ends with break.
pending_continues_mut == "ticker"
pending_breaks == "idle"

\* The Poll::Pending arm: the future taken from the slot is put back.
drop_task_mut(fut) == NoneOpt
keep_task(fut) == Some(fut)

poll_drive ==
    /\ pc = "drive"
    /\ IF IsSome(insert_task)
       THEN LET fut == Unwrap(insert_task)
            IN  \E outcome \in poll_unpin :
                  IF outcome = "Ready"
                  THEN /\ insert_task' = NoneOpt
                       /\ pipe_line_events' = fut.output
                       /\ completed' = Append(completed, fut)
                       /\ pc' = ready_continues
                  ELSE /\ insert_task' = keep_task(fut)
                       /\ pc' = pending_breaks
                       /\ UNCHANGED <<pipe_line_events, completed>>
       ELSE /\ pc' = "ticker"
            /\ UNCHANGED <<insert_task, pipe_line_events, completed>>
    /\ UNCHANGED <<queued, enqueued, started>>
    /\ UNCHANGED <<api_service, node_command>>

SchedNext ==
    \/ \E events \in EventStreams : set_pipeline_events(events)
    \/ poll_enter
    \/ poll_ticker
    \/ poll_select
    \/ poll_drive

SchedSpec == Init /\ [][SchedNext]_vars

\* One call of poll runs to its return: the statements of a pass wait for
\* nothing (the ticker and the future are polled, never awaited).
poll_pass == poll_ticker \/ poll_select \/ poll_drive
SchedLive == SchedSpec /\ WF_vars(poll_pass)

\* --------------------------------------------------- NodeCommand::fetch_tip
\* The tips asked for, the headers there are, and the answers of the database
\* provider and of get_single_header.
Tips == {<<kind, b>> : kind \in {"Hash", "Number"}, b \in BlockIds}
Headers == BlockIds
DbOk(v) == [ok |-> TRUE, val |-> v]
DbErr == [ok |-> FALSE, val |-> NoneOpt]
DatabaseAnswers == {DbErr, DbOk(NoneOpt)} \cup {DbOk(Some(h)) : h \in Headers}
seal_slow(header) == [header |-> header, sealed |-> TRUE]
DownloadErrors == {"Timeout", "BadResponse"}
DownloadAnswers ==
    {[ok |-> TRUE, val |-> Some(seal_slow(h)), err |-> NoneOpt] : h \in Headers}
        \cup {[ok |-> FALSE, val |-> NoneOpt, err |-> Some(e)] : e \in DownloadErrors}
FetchOk(sealed_header) == [ok |-> TRUE, val |-> Some(sealed_header), err |-> NoneOpt]
FetchErr(e) == [ok |-> FALSE, val |-> NoneOpt, err |-> Some(e)]

FetchInit ==
    /\ ClInit
    /\ ParsedDefault
    /\ tip \in Tips
    /\ database \in DatabaseAnswers
    /\ fetch_pc = "called"
    /\ downloads = 0
    /\ downloaded = NoneOpt
    /\ fetch_ret = NoneOpt

\* fetch_tip up to its loop: the lookup of the header in the database.
fetch_tip_lookup ==
    /\ fetch_pc = "called"
    /\ IF ~database.ok
       THEN /\ fetch_pc' = "returned"
            /\ fetch_ret' = Some(FetchErr("Database"))
       ELSE IF IsSome(database.val)
       THEN /\ fetch_pc' = "returned"
            /\ fetch_ret' = Some(FetchOk(seal_slow(Unwrap(database.val))))
       ELSE /\ fetch_pc' = "loop"
            /\ UNCHANGED fetch_ret
    /\ UNCHANGED <<tip, database, downloads, downloaded>>
    /\ UNCHANGED <<api_service, cl_task, instance, rpc, adjusted>>

\* The Err arm of the match in the loop: log, and go round again.
fetch_give_up_mut(error) == [pc |-> "returned", ret |-> Some(FetchErr(error))]
fetch_retry(error) == [pc |-> "loop", ret |-> NoneOpt]

\* One iteration of the loop whose get_single_header succeeds.
fetch_tip_fetched ==
    /\ fetch_pc = "loop"
    /\ \E answer \in {a \in DownloadAnswers : a.ok} :
         /\ downloaded' = Some(answer)
         /\ fetch_ret' = Some(FetchOk(Unwrap(answer.val)))
    /\ downloads' = downloads + 1
    /\ fetch_pc' = "returned"
    /\ UNCHANGED <<tip, database>>
    /\ UNCHANGED <<api_service, cl_task, instance, rpc, adjusted>>

\* One iteration of the loop whose get_single_header fails.
fetch_tip_failed ==
    /\ fetch_pc = "loop"
    /\ downloads < MaxDownloads
    /\ \E answer \in {a \in DownloadAnswers : ~a.ok} :
         /\ downloaded' = Some(answer)
         /\ fetch_pc' = fetch_retry(Unwrap(answer.err)).pc
         /\ fetch_ret' = fetch_retry(Unwrap(answer.err)).ret
    /\ downloads' = downloads + 1
    /\ UNCHANGED <<tip, database>>
    /\ UNCHANGED <<api_service, cl_task, instance, rpc, adjusted>>

FetchNext ==
    \/ fetch_tip_lookup
    \/ fetch_tip_fetched
    \/ fetch_tip_failed

FetchSpec == FetchInit /\ [][FetchNext]_vars
\* The network eventually delivers the header: a download that can succeed
\* does not fail forever.
FetchLive == FetchSpec /\ WF_vars(fetch_tip_lookup) /\ WF_vars(fetch_tip_fetched)

\* ---------------------------------------- NodeCommand::adjust_instance_ports
\* u16 arithmetic: the value an operation wraps to, and whether it left u16.
U16_RANGE == 65536
MAX_INSTANCE == 200
Instances == 0..MAX_INSTANCE
wrapping(x) == ((x % U16_RANGE) + U16_RANGE) % U16_RANGE
overflows(x) == x < 0 \/ x >= U16_RANGE

\* The offset adjust_instance_ports adds to ws_port.
instance_ws_offset_mut(n) == n * 2
instance_ws_offset(n) == n * 2 - 2

\* The three assignments of adjust_instance_ports on ports p for instance n:
\* the ports with wrapping arithmetic, and whether any operation overflowed.
adjust_ports(p, n) ==
    LET a1 == n * 100
        a2 == wrapping(a1) - 100
        auth == p.auth_port + wrapping(a2)
        h1 == n - 1
        http == p.http_port - wrapping(h1)
        w1 == n * 2
        w2 == instance_ws_offset(n)
        ws == p.ws_port + wrapping(w2)
    IN  [rpc |-> [auth_port |-> wrapping(auth), http_port |-> wrapping(http),
                  ws_port |-> wrapping(ws)],
         overflowed |-> \E x \in {a1, a2, auth, h1, http, w1, w2, ws} : overflows(x)]

PortsInit ==
    /\ ClInit
    /\ FetchIdle
    /\ instance \in Instances
    /\ rpc = DefaultRpc
    /\ adjusted = "parsed"

\* adjust_instance_ports, called once by execute.  An operation that leaves
\* u16 panics in a build with overflow checks and wraps in one without.
adjust_instance_ports ==
    /\ adjusted = "parsed"
    /\ LET r == adjust_ports(rpc, instance)
       IN  IF r.overflowed
           THEN \/ /\ adjusted' = "panicked"
                   /\ UNCHANGED rpc
                \/ /\ adjusted' = "adjusted"
                   /\ rpc' = r.rpc
           ELSE /\ adjusted' = "adjusted"
                /\ rpc' = r.rpc
    /\ UNCHANGED <<instance, tip, database, fetch_pc, downloads, downloaded, fetch_ret>>
    /\ UNCHANGED <<api_service, cl_task>>

PortsSpec == PortsInit /\ [][adjust_instance_ports]_vars

\* ============================================================ properties
\* What the last call saw and did, read off call, pre, sent and recv.
LastOp(op) == call.op = op
PreLatest == pre[1]
PreNextPayloadIds == pre[2]
PreProposing == pre[3]
DriverUnchanged == driver = pre

\* The engine answered the last request the call sent.
LastAnswer == recv[Len(recv)]
AnsweredForkchoice ==
    /\ sent /= <<>>
    /\ sent[Len(sent)].method = "forkchoice_updated_v2"
    /\ Len(recv) = Len(sent)
    /\ LastAnswer.ok
ForkchoiceStatus == Unwrap(LastAnswer.val).payload_status.status

\* The id a call of initialize_block resolved: its argument when given,
\* otherwise the hash of the block the engine reported for "latest".
ResolvedId ==
    IF IsSome(call.arg) THEN call.arg
    ELSE Some(Unwrap(Unwrap(recv[1].val)).block_hash)

\* C1: whenever finalize_block returns a payload, the payload's parent_hash is
\* the latest_committed_id the call was made with, which is an id a successful
\* initialize_block resolved and for which a summarize_block succeeded.
C1_FinalizeReturnsChildOfHead ==
    (LastOp("finalize_block") /\ ret.tag = "Ok") =>
        /\ IsSome(ret.payload)
        /\ IsSome(PreLatest)
        /\ Unwrap(ret.payload).parent_hash = Unwrap(PreLatest)
        /\ Unwrap(ret.payload).parent_hash \in initialized_ids
        /\ Unwrap(ret.payload).parent_hash \in summarized_ids

\* initialize_block, summarize_block, finalize_block as the first three calls,
\* all successful.
C1_Witness ==
    /\ LastOp("finalize_block")
    /\ ret.tag = "Ok"
    /\ ncalls = 3
    /\ Cardinality(initialized_ids) = 1

\* C2: when get_payload answers with a payload whose parent_hash differs from
\* latest_committed_id, finalize_block returns a ConsistencyViolation error
\* and the owning thread keeps running.
C2_MismatchIsReportedNotFatal ==
    (/\ LastOp("finalize_block")
     /\ recv /= <<>>
     /\ recv[1].ok
     /\ Unwrap(recv[1].val).parent_hash /= Unwrap(PreLatest)) =>
        /\ ret.tag = "ConsistencyViolation"
        /\ thread = "running"

\* C3: at most one build is in flight: every build started has completed
\* before the next one is started, and the slot is occupied exactly while one
\* build is started and not completed.
C3_AtMostOneBuildInFlight ==
    LET in_flight == Len(started) - Len(completed)
    IN  /\ in_flight \in {0, 1}
        /\ (in_flight = 1) <=> IsSome(insert_task)

\* A pass reaches the start-a-build block with the slot occupied and an
\* attempt waiting in the backlog.
C3_Witness ==
    /\ pc = "select"
    /\ IsSome(insert_task)
    /\ queued /= <<>>

\* C4: builds are started in the order their attempts were enqueued, and the
\* build of an attempt is started only when the builds of all earlier attempts
\* have completed.
C4_BuildsStartInFifoOrder ==
    /\ Len(started) <= Len(enqueued)
    /\ started = SubSeq(enqueued, 1, Len(started))
    /\ queued = SubSeq(enqueued, Len(started) + 1, Len(enqueued))
    /\ Len(completed) <= Len(started)
    /\ \A i \in 1..Len(completed) : completed[i].timestamp = started[i]
    /\ \A i \in 1..Len(started) : i < Len(started) => i <= Len(completed)

\* Attempt 2 was started while attempt 3 waited behind it, after attempt 1.
C4_Witness ==
    /\ enqueued = <<1, 2, 3>>
    /\ started = <<1, 2>>
    /\ queued = <<3>>
    /\ Len(completed) = 1

\* C5: every build the scheduler completes has driven initialize, summarize
\* and finalize in that order and handed the payload to the decision sink.
C5_BuildDrivesThePhases ==
    \A i \in 1..Len(completed) :
        /\ completed[i].phases = <<"initialize_block", "summarize_block", "finalize_block">>
        /\ IsSome(completed[i].forwarded)

\* C6: commit_block(block_id) for a block_id no successful finalize_block has
\* returned fails with BlockNotReady, sends nothing and changes no field.
C6_CommitUnknownBlock ==
    (LastOp("commit_block") /\ Unwrap(call.arg) \notin finalized_ids) =>
        /\ ret = ResultErr("BlockNotReady")
        /\ sent = <<>>
        /\ DriverUnchanged

\* commit_block for an unknown block while another block is known.
C6_Witness ==
    /\ LastOp("commit_block")
    /\ Unwrap(call.arg) \notin finalized_ids
    /\ finalized_ids /= {}

\* C7 as stated: finalize_block fails with BlockNotReady whenever no
\* summarize_block has succeeded for the current latest_committed_id, the case
\* of an unset latest_committed_id included, and sends nothing.
C7_Original ==
    (/\ LastOp("finalize_block")
     /\ (~IsSome(PreLatest) \/ Unwrap(PreLatest) \notin summarized_ids)) =>
        /\ ret.tag = "BlockNotReady"
        /\ sent = <<>>

\* C7 amended: finalize_block fails with BlockNotReady when latest_committed_id
\* is set and no summarize_block has succeeded for it, and with NoChainHead
\* when latest_committed_id is unset; either way it sends nothing and changes
\* no field.
C7_FinalizeWithoutSummarize ==
    /\ (LastOp("finalize_block") /\ IsSome(PreLatest)
            /\ Unwrap(PreLatest) \notin summarized_ids) =>
           (ret = ResultErr("BlockNotReady") /\ sent = <<>> /\ DriverUnchanged)
    /\ (LastOp("finalize_block") /\ ~IsSome(PreLatest)) =>
           (ret = ResultErr("NoChainHead") /\ sent = <<>> /\ DriverUnchanged)

\* finalize_block on a head that was never summarized, while another one was.
C7_Witness ==
    /\ LastOp("finalize_block")
    /\ IsSome(PreLatest)
    /\ Unwrap(PreLatest) \notin summarized_ids
    /\ summarized_ids /= {}

\* After a successful initialize_block, latest_committed_id is the resolved id.
InitializePost ==
    (LastOp("initialize_block") /\ ret.tag = "Ok") =>
        latest_committed_id = ResolvedId

\* The call being made is a summarize_block answered Valid with a payload id.
CooperativeSummarize ==
    /\ ncalls' = ncalls + 1
    /\ call'.op = "summarize_block"
    /\ recv' /= <<>>
    /\ recv'[1].ok
    /\ is_valid(Unwrap(recv'[1].val).payload_status.status)
    /\ IsSome(Unwrap(recv'[1].val).payload_id)

\* C8: after every successful initialize_block latest_committed_id is the
\* resolved id, and a summarize_block called next and answered Valid with a
\* payload id succeeds and records that payload id for the resolved id.
C8_InitializeThenSummarize ==
    [][/\ InitializePost'
       /\ (LastOp("initialize_block") /\ ret.tag = "Ok" /\ CooperativeSummarize) =>
              /\ ret'.tag = "Ok"
              /\ Unwrap(ResolvedId) \in DOMAIN next_payload_id_pairs'
              /\ next_payload_id_pairs'[Unwrap(ResolvedId)] =
                     Unwrap(Unwrap(recv'[1].val).payload_id)]_vars

\* initialize_block(None) succeeded on the engine's head and the summarize_block
\* that followed succeeded.
C8_Witness ==
    /\ ncalls = 2
    /\ LastOp("summarize_block")
    /\ ret.tag = "Ok"
    /\ initialized_ids = {2}
    /\ latest_committed_id = Some(2)
    /\ next_payload_id_pairs = MapInsert(EmptyMap, 2, 1)

\* C9: if the engine answers initialize_block's forkchoice_updated with a
\* status other than Valid, initialize_block fails with BlockNotReady and
\* latest_committed_id keeps its value.
C9_InitializeNotValid ==
    (LastOp("initialize_block") /\ AnsweredForkchoice
         /\ ForkchoiceStatus \in {"Syncing", "Invalid", "Accepted"}) =>
        /\ ret = ResultErr("BlockNotReady")
        /\ latest_committed_id = PreLatest

\* initialize_block answered Syncing for another block while a head is set.
C9_Witness ==
    /\ LastOp("initialize_block")
    /\ AnsweredForkchoice
    /\ ForkchoiceStatus = "Syncing"
    /\ IsSome(PreLatest)
    /\ call.arg /= PreLatest
    /\ IsSome(call.arg)

\* C10: summarize_block called while latest_committed_id is unset fails with
\* NoChainHead, sends nothing and leaves next_payload_id_pairs unchanged.
C10_SummarizeWithoutHead ==
    (LastOp("summarize_block") /\ ~IsSome(PreLatest)) =>
        /\ ret = ResultErr("NoChainHead")
        /\ sent = <<>>
        /\ next_payload_id_pairs = PreNextPayloadIds
        /\ DriverUnchanged

\* summarize_block called after a failed initialize_block left the head unset.
C10_Witness ==
    /\ LastOp("summarize_block")
    /\ ~IsSome(PreLatest)
    /\ ncalls = 2

\* The engine's answer to the single request of a summarize_block, a
\* finalize_block or a commit_block.
Answered == Len(recv) = 1 /\ Len(sent) = 1 /\ recv[1].ok
Answer == Unwrap(recv[1].val)

\* C11: summarize_block succeeds exactly when the engine's answer has status
\* Valid and carries a payload id, and then next_payload_id_pairs maps
\* latest_committed_id to that payload id and is otherwise unchanged; on any
\* other answer it fails with BlockNotReady and next_payload_id_pairs is
\* unchanged, an earlier entry for the same parent included.
C11_SummarizeRecordsPayloadId ==
    (LastOp("summarize_block") /\ IsSome(PreLatest)) =>
        LET cooperative ==
                /\ Answered
                /\ is_valid(Answer.payload_status.status)
                /\ IsSome(Answer.payload_id)
        IN  /\ (ret.tag = "Ok") <=> cooperative
            /\ cooperative =>
                   /\ next_payload_id_pairs =
                          MapInsert(PreNextPayloadIds, Unwrap(PreLatest),
                                    Unwrap(Answer.payload_id))
                   /\ latest_committed_id = PreLatest
                   /\ proposing_payload_pairs = PreProposing
            /\ (Answered /\ ~cooperative) =>
                   /\ ret = ResultErr("BlockNotReady")
                   /\ DriverUnchanged

\* A summarize_block answered with a non-Valid status that carries a payload
\* id, for a parent that already has a pending payload id: the entry is kept.
C11_Witness ==
    /\ LastOp("summarize_block")
    /\ Answered
    /\ ~is_valid(Answer.payload_status.status)
    /\ IsSome(Answer.payload_id)
    /\ IsSome(PreLatest)
    /\ Unwrap(PreLatest) \in DOMAIN next_payload_id_pairs
    /\ next_payload_id_pairs[Unwrap(PreLatest)] /= Unwrap(Answer.payload_id)

\* C12: commit_block of a known block succeeds exactly when the engine's
\* new_payload answer has status Valid and a latest valid hash; a non-Valid
\* status, or Valid without a latest valid hash, gives BlockNotReady.
C12_CommitNeedsValidAndHash ==
    (LastOp("commit_block") /\ Unwrap(call.arg) \in DOMAIN PreProposing) =>
        /\ Len(sent) = 1
        /\ Len(recv) = 1
        /\ LET accepted ==
                   /\ recv[1].ok
                   /\ is_valid(Answer.status)
                   /\ IsSome(Answer.latest_valid_hash)
           IN  /\ (ret.tag = "Ok") <=> accepted
               /\ (recv[1].ok /\ ~accepted) => ret = ResultErr("BlockNotReady")

\* commit_block of a known block answered Valid with no latest valid hash.
C12_Witness ==
    /\ LastOp("commit_block")
    /\ Unwrap(call.arg) \in DOMAIN PreProposing
    /\ Answered
    /\ is_valid(Answer.status)
    /\ ~IsSome(Answer.latest_valid_hash)
    /\ ret = ResultErr("BlockNotReady")

\* After a call, the head differs from the head the call was made with only
\* if the call was a successful initialize_block.
HeadMovesOnlyByInitialize ==
    /\ LastOp("commit_block") => latest_committed_id = PreLatest
    /\ (latest_committed_id /= PreLatest) =>
           (LastOp("initialize_block") /\ ret.tag = "Ok")

\* C13: commit_block never changes latest_committed_id, whether it succeeds
\* or fails; the head moves only through a successful initialize_block; and a
\* summarize_block called right after a commit_block requests a build on the
\* head the commit_block was called with.
C13_CommitKeepsHead ==
    [][/\ HeadMovesOnlyByInitialize'
       /\ (/\ LastOp("commit_block")
           /\ call'.op = "summarize_block"
           /\ ncalls' = ncalls + 1
           /\ IsSome(PreLatest)) =>
              sent' = <<ReqForkchoiceUpdatedWithAttributes(Unwrap(PreLatest))>>]_vars

\* A successful commit_block of a block that is not the head: the head stays.
C13_Witness ==
    /\ LastOp("commit_block")
    /\ ret.tag = "Ok"
    /\ IsSome(latest_committed_id)
    /\ latest_committed_id = PreLatest
    /\ Unwrap(call.arg) /= Unwrap(latest_committed_id)

\* C14: cancel_block returns Ok, sends nothing and changes no field, from any
\* state and however often it is called: after a second cancel_block in a row
\* the driver is as it was after the first and before it.
C14_CancelIsIdempotent ==
    LastOp("cancel_block") =>
        /\ ret = ResultOk
        /\ sent = <<>>
        /\ recv = <<>>
        /\ DriverUnchanged
        /\ thread = "running"
        /\ IsSome(again) => again = Some("Ok")

\* A second cancel_block in a row, on a driver holding a pending payload id
\* and a built payload.
C14_Witness ==
    /\ LastOp("cancel_block")
    /\ again = Some("Ok")
    /\ DOMAIN next_payload_id_pairs /= {}
    /\ DOMAIN proposing_payload_pairs /= {}

\* C15: after fail_block(block_id), proposing_payload_pairs holds no entry for
\* block_id, so that a commit_block of it that follows fails with BlockNotReady.
C15_FailReleasesPayload ==
    LastOp("fail_block") =>
        Unwrap(call.arg) \notin DOMAIN proposing_payload_pairs

\* C16: initialize_block(None) first asks for the block "latest"; if the
\* engine reports no block it fails with UnknownBlock, sends no forkchoice
\* update and leaves latest_committed_id unchanged.
C16_InitializeNoBlock ==
    (LastOp("initialize_block") /\ ~IsSome(call.arg)) =>
        /\ sent /= <<>>
        /\ sent[1] = ReqGetBlockByNumber(LATEST_TAG)
        /\ (recv[1].ok /\ ~IsSome(Unwrap(recv[1].val))) =>
               /\ ret.tag = "UnknownBlock"
               /\ sent = <<ReqGetBlockByNumber(LATEST_TAG)>>
               /\ DriverUnchanged

\* initialize_block(None) on a driver with a head, the engine reporting no block.
C16_Witness ==
    /\ LastOp("initialize_block")
    /\ ~IsSome(call.arg)
    /\ recv[1].ok
    /\ ~IsSome(Unwrap(recv[1].val))
    /\ IsSome(latest_committed_id)

\* The operations that talk to the engine, and the text each puts in front of
\* the engine's error.
EngineOps == {"initialize_block", "summarize_block", "finalize_block", "commit_block"}
LastRequestFailed ==
    /\ call.op \in EngineOps
    /\ recv /= <<>>
    /\ Len(recv) = Len(sent)
    /\ ~LastAnswer.ok
ErrorPrefix ==
    LET method == sent[Len(sent)].method
    IN  IF method = "get_block_by_number" THEN "get block by number error"
        ELSE IF method = "get_payload_v2" THEN "get_payload_v2"
        ELSE IF method = "new_payload_v2" THEN "new_payload"
        ELSE IF LastOp("summarize_block") THEN "forkchoice_updated_with_attributes"
        ELSE "forkchoice_updated"

\* C17: when an engine call of initialize_block, summarize_block,
\* finalize_block or commit_block fails, the operation returns ApiError
\* carrying the engine error after the call's name, makes no further request,
\* and leaves the three fields unchanged.
C17_RpcErrorIsApiError ==
    LastRequestFailed =>
        /\ ret = ResultApiError(ErrorPrefix, Unwrap(LastAnswer.err))
        /\ DriverUnchanged
        /\ thread = "running"

\* A transport failure of new_payload on a driver holding state.
C17_Witness ==
    /\ LastOp("commit_block")
    /\ LastRequestFailed
    /\ LastAnswer.err = Some("HttpClient")
    /\ IsSome(latest_committed_id)
    /\ DOMAIN next_payload_id_pairs /= {}

\* What the last call would have returned had the engine failed its last
\* request with the error e instead.
IfLastRequestFailedWith(e) ==
    LET a == RpcErr(e)
        x == IF LastOp("initialize_block")
             THEN IF IsSome(call.arg) THEN initialize_block_async(call.arg, a, a)
                  ELSE IF Len(recv) = 1 THEN initialize_block_async(call.arg, a, a)
                  ELSE initialize_block_async(call.arg, recv[1], a)
             ELSE IF LastOp("summarize_block")
             THEN summarize_block_async(Unwrap(PreLatest), a)
             ELSE IF LastOp("finalize_block")
             THEN finalize_block_async(PreNextPayloadIds[Unwrap(PreLatest)], a)
             ELSE commit_block_async(PreProposing[Unwrap(call.arg)][1],
                                     PreProposing[Unwrap(call.arg)][2], a)
    IN  ResultOfSignal(Unwrap(x.signal))

AuthenticationFailed == LastRequestFailed /\ LastAnswer.err = Some("Auth")

\* C18: the error an operation returns for an authentication failure of an
\* engine call has another variant than the error the same operation returns
\* for a malformed response to that call.
C18_AuthHasItsOwnVariant ==
    AuthenticationFailed => ret.tag /= IfLastRequestFailedWith("BadResponse").tag

\* The last call got as far as the engine's status, and the status it read.
StatusAnswered ==
    /\ call.op \in {"initialize_block", "summarize_block", "commit_block"}
    /\ recv /= <<>>
    /\ Len(recv) = Len(sent)
    /\ \A i \in 1..Len(recv) : recv[i].ok
    /\ sent[Len(sent)].method \in {"forkchoice_updated_v2", "new_payload_v2"}
StatusOfLastAnswer ==
    IF LastOp("commit_block") THEN Unwrap(LastAnswer.val).status
    ELSE Unwrap(LastAnswer.val).payload_status.status
NotReadyByStatus == StatusAnswered /\ ~is_valid(StatusOfLastAnswer)
\* The engine reports Valid and hands over what the operation asks of it.
EngineReportsValid ==
    /\ StatusAnswered
    /\ is_valid(StatusOfLastAnswer)
    /\ LastOp("summarize_block") => IsSome(Unwrap(LastAnswer.val).payload_id)
    /\ LastOp("commit_block") => IsSome(Unwrap(LastAnswer.val).latest_valid_hash)
RepeatsLastCall == call' = call /\ ncalls' = ncalls + 1

C20_CommitFollowsThePhases ==
    /\ summarized_ids \subseteq initialized_ids
    /\ DOMAIN next_payload_id_pairs = summarized_ids
    /\ DOMAIN proposing_payload_pairs = finalized_ids
    /\ \A b \in DOMAIN proposing_payload_pairs :
           /\ proposing_payload_pairs[b][2].block_hash = b
           /\ proposing_payload_pairs[b][2].parent_hash \in summarized_ids
    /\ (LastOp("commit_block") /\ ret.tag = "Ok") =>
           /\ Unwrap(call.arg) \in finalized_ids
           /\ sent = <<ReqNewPayload(proposing_payload_pairs[Unwrap(call.arg)][2])>>

\* A commit that succeeded as the fourth call of a cycle.
C20_Witness ==
    /\ LastOp("commit_block")
    /\ ret.tag = "Ok"
    /\ ncalls = 4

\* The scheduler's fields other than the slot.
SchedulerFrame == <<queued, pipe_line_events, enqueued, started, completed>>

\* C21: a pass with an empty slot and an empty backlog returns having changed
\* nothing; a pass whose build is still pending returns with that build in
\* the slot and nothing else changed; the ticker poll changes nothing but the
\* backlog; and every pass that was entered returns.
C21_PassNeverBlocks ==
    /\ [][ /\ (pc = "ticker" /\ pc' /= pc) =>
                  UNCHANGED <<insert_task, pipe_line_events, started, completed>>
           /\ (pc = "select" /\ insert_task = NoneOpt /\ queued = <<>>) =>
                  /\ pc' = "idle"
                  /\ UNCHANGED <<insert_task, SchedulerFrame>>
           /\ (pc = "drive" /\ pc' = "idle") =>
                  /\ IsSome(insert_task)
                  /\ UNCHANGED <<insert_task, SchedulerFrame>>
         ]_vars
    /\ (pc /= "idle") ~> (pc = "idle")

\* A pass that completed a build went round the loop, found the slot and the
\* backlog empty and returned.
C21_Witness ==
    /\ pc = "idle"
    /\ insert_task = NoneOpt
    /\ queued = <<>>
    /\ Len(completed) >= 1

\* C22: every driver call operates on the driver the call before it left: the
\* fields a call starts from are the fields as they stood when it was made.
C22_OneLifecycleState ==
    [][ncalls' = ncalls + 1 => pre' = driver]_vars

\* The forkchoice requests of the last call, and the id the call works on:
\* the id initialize_block resolved, or the head summarize_block builds on.
ForkchoiceRequests ==
    {i \in 1..Len(sent) : sent[i].method = "forkchoice_updated_v2"}
WorkedOnId ==
    IF LastOp("initialize_block") THEN Unwrap(ResolvedId) ELSE Unwrap(PreLatest)

\* C23: every forkchoice_updated request sent, with or without attributes,
\* carries a ForkchoiceState whose head, safe and finalized hashes all equal
\* the id being initialized or built on.
C23_ForkchoiceStateIsOneId ==
    \A i \in ForkchoiceRequests :
        LET forkchoice_state == sent[i].arg[1]
        IN  /\ call.op \in {"initialize_block", "summarize_block"}
            /\ sent[i].arg[2] = LastOp("summarize_block")
            /\ forkchoice_state.head_block_hash = WorkedOnId
            /\ forkchoice_state.safe_block_hash = WorkedOnId
            /\ forkchoice_state.finalized_block_hash = WorkedOnId

\* summarize_block asked the engine to build on head 2.
C23_Witness ==
    /\ LastOp("summarize_block")
    /\ PreLatest = Some(2)
    /\ ForkchoiceRequests = {1}

\* C24 as stated: each call of initialize_block, summarize_block,
\* finalize_block or commit_block makes exactly one engine exchange.
C24_ExactlyOneExchange ==
    call.op \in EngineOps => (Len(sent) = 1 /\ Len(recv) = 1)

\* The number of engine requests the last call is due to make.
RequestsDue ==
    IF LastOp("initialize_block")
    THEN IF IsSome(call.arg) THEN 1
         ELSE IF recv[1].ok /\ IsSome(Unwrap(recv[1].val)) THEN 2 ELSE 1
    ELSE IF LastOp("summarize_block")
    THEN IF IsSome(PreLatest) THEN 1 ELSE 0
    ELSE IF LastOp("finalize_block")
    THEN IF IsSome(PreLatest) /\ Unwrap(PreLatest) \in DOMAIN PreNextPayloadIds
         THEN 1 ELSE 0
    ELSE IF Unwrap(call.arg) \in DOMAIN PreProposing THEN 1 ELSE 0

\* C24 amended: every request a call sent was answered before the call
\* returned; summarize_block, finalize_block and commit_block send one request
\* when their lookup in the driver's state succeeds and none when it fails;
\* initialize_block sends one request when given an id, and otherwise asks for
\* the latest block and, if the engine reports one, sends a second request.
C24_ExchangesResolveBeforeReturn ==
    call.op \in EngineOps =>
        /\ Len(recv) = Len(sent)
        /\ Len(sent) = RequestsDue
        /\ Len(sent) \in 0..2

\* initialize_block(None) made two exchanges.
C24_Witness ==
    /\ LastOp("initialize_block")
    /\ Len(sent) = 2
    /\ Len(recv) = 2

\* C25: fetch_tip returns the database's header, sealed, with no download
\* when the database has it; it returns an error only for a database error,
\* never for a failed download, after which it downloads again; a download
\* that succeeds ends it with the header downloaded; and once downloads can
\* succeed, fetch_tip returns.
C25_FetchTipRetriesUntilFetched ==
    /\ [](fetch_pc = "returned" =>
            /\ IsSome(fetch_ret)
            /\ (database.ok /\ IsSome(database.val)) =>
                   /\ downloads = 0
                   /\ fetch_ret = Some(FetchOk(seal_slow(Unwrap(database.val))))
            /\ ~Unwrap(fetch_ret).ok =>
                   /\ ~database.ok
                   /\ downloads = 0
            /\ downloads > 0 =>
                   /\ Unwrap(downloaded).ok
                   /\ fetch_ret = Some(FetchOk(Unwrap(Unwrap(downloaded).val))))
    /\ []((fetch_pc = "loop" /\ downloads > 0) =>
            (~Unwrap(downloaded).ok /\ fetch_ret = NoneOpt))
    /\ (fetch_pc = "loop") ~> (fetch_pc = "returned" /\ Unwrap(fetch_ret).ok)

\* fetch_tip returned a downloaded header after two failed downloads.
C25_Witness ==
    /\ fetch_pc = "returned"
    /\ downloads = 3
    /\ Unwrap(fetch_ret).ok

\* C26: for an instance number n >= 1, adjust_instance_ports turns the
\* default ports into auth_port 8551 + 100*(n-1), http_port 8545 - (n-1) and
\* ws_port 8546 + 2*(n-1) without overflow; instance 1 keeps the defaults;
\* and no other instance number >= 1 gets the same auth, http or ws port.
C26_InstancePorts ==
    (instance >= 1 /\ adjusted /= "parsed") =>
        /\ adjusted = "adjusted"
        /\ rpc.auth_port = 8551 + 100 * (instance - 1)
        /\ rpc.http_port = 8545 - (instance - 1)
        /\ rpc.ws_port = 8546 + 2 * (instance - 1)
        /\ instance = 1 => rpc = DefaultRpc
        /\ \A m \in Instances \ {0, instance} :
               LET other == adjust_ports(DefaultRpc, m).rpc
               IN  /\ other.auth_port /= rpc.auth_port
                   /\ other.http_port /= rpc.http_port
                   /\ other.ws_port /= rpc.ws_port

\* The ports of instance 3 as the test parse_instance expects them.
C26_Witness ==
    /\ instance = 3
    /\ adjusted = "adjusted"
    /\ rpc = [auth_port |-> 8751, http_port |-> 8543, ws_port |-> 8550]

\* C27: a summarize_block the engine answers Valid with a payload id returns
\* Ok whether or not its parent already has a pending payload id, and leaves
\* the answered id under that parent; no other call writes
\* next_payload_id_pairs; and finalize_block asks get_payload for the id
\* next_payload_id_pairs holds for latest_committed_id.
C27_LastSummarizeWins ==
    /\ (LastOp("summarize_block") /\ EngineReportsValid) =>
           /\ ret = ResultOk
           /\ next_payload_id_pairs[Unwrap(PreLatest)] = Unwrap(Answer.payload_id)
           /\ \A k \in DOMAIN PreNextPayloadIds \ {Unwrap(PreLatest)} :
                  next_payload_id_pairs[k] = PreNextPayloadIds[k]
    /\ ~(LastOp("summarize_block") /\ ret.tag = "Ok") =>
           next_payload_id_pairs = PreNextPayloadIds
    /\ (LastOp("finalize_block") /\ sent /= <<>>) =>
           /\ latest_committed_id = PreLatest
           /\ sent = <<ReqGetPayload(next_payload_id_pairs[Unwrap(latest_committed_id)])>>

\* summarize_block succeeded twice in a row and the second payload id, another
\* one, took the place of the first.
C27_Witness ==
    /\ LastOp("summarize_block")
    /\ again = Some("Ok")
    /\ ret = ResultOk
    /\ PreNextPayloadIds[Unwrap(PreLatest)] /= next_payload_id_pairs[Unwrap(PreLatest)]

\* C28: the keys of next_payload_id_pairs are ids for which summarize_block
\* succeeded while they were latest_committed_id; finalize_block leaves
\* next_payload_id_pairs and latest_committed_id as they were; and a
\* finalize_block that follows a finalize_block which reached the engine asks
\* get_payload again, for the id still recorded for latest_committed_id.
C28_FinalizeReadsPendingId ==
    /\ DOMAIN next_payload_id_pairs \subseteq summarized_ids
    /\ summarized_ids \subseteq initialized_ids
    /\ LastOp("finalize_block") =>
           /\ next_payload_id_pairs = PreNextPayloadIds
           /\ latest_committed_id = PreLatest
    /\ (LastOp("finalize_block") /\ again \in {Some("Ok"), Some("ApiError")}) =>
           sent = <<ReqGetPayload(next_payload_id_pairs[Unwrap(latest_committed_id)])>>

\* finalize_block returned a payload and was called again at once.
C28_Witness ==
    /\ LastOp("finalize_block")
    /\ again = Some("Ok")
    /\ Len(sent) = 1
    /\ sent[1].method = "get_payload_v2"

\* C29: proposing_payload_pairs changes only when finalize_block returns a
\* payload, by gaining that payload under its block id; no call removes a
\* key, commit_block changes nothing, and a commit_block(b) made again after
\* one that returned Ok reaches the engine again and succeeds on a
\* cooperative answer.
C29_BuiltPayloadsOnlyGrow ==
    /\ DOMAIN PreProposing \subseteq DOMAIN proposing_payload_pairs
    /\ (proposing_payload_pairs /= PreProposing) =>
           /\ LastOp("finalize_block")
           /\ ret.tag = "Ok"
    /\ (LastOp("finalize_block") /\ ret.tag = "Ok") =>
           LET playload == Unwrap(ret.payload)
           IN  /\ playload.block_hash \in DOMAIN proposing_payload_pairs
               /\ proposing_payload_pairs[playload.block_hash][2] = playload
               /\ \A b \in DOMAIN PreProposing \ {playload.block_hash} :
                      proposing_payload_pairs[b] = PreProposing[b]
    /\ LastOp("commit_block") => proposing_payload_pairs = PreProposing
    /\ (LastOp("commit_block") /\ again = Some("Ok")) =>
           /\ sent = <<ReqNewPayload(proposing_payload_pairs[Unwrap(call.arg)][2])>>
           /\ EngineReportsValid => ret = ResultOk

\* commit_block(b) returned Ok twice in a row.
C29_Witness ==
    /\ LastOp("commit_block")
    /\ again = Some("Ok")
    /\ ret = ResultOk

\* C30: every firing the ticker poll observes puts one attempt at the tail of
\* the backlog, whatever the slot and the backlog hold; the backlog otherwise
\* changes only by losing its head to a build being started; so the attempts
\* enqueued are the builds started plus the attempts waiting.
C30_AttemptsAreConserved ==
    /\ [](Len(enqueued) = Len(started) + Len(queued))
    /\ [][ /\ (enqueued' /= enqueued) =>
                  /\ pc = "ticker"
                  /\ Len(enqueued') = Len(enqueued) + 1
                  /\ queued' = Append(queued, enqueued'[Len(enqueued')])
                  /\ UNCHANGED <<insert_task, started>>
           /\ (enqueued' = enqueued /\ queued' /= queued) =>
                  /\ pc = "select"
                  /\ queued /= <<>>
                  /\ queued' = Tail(queued)
                  /\ started' = Append(started, Head(queued))
                  /\ IsSome(insert_task')
         ]_vars

\* The third firing has just been appended to the backlog the two builds
\* before it had emptied.
C30_Witness ==
    /\ pc = "select"
    /\ enqueued = <<1, 2, 3>>
    /\ started = <<1, 2>>
    /\ queued = <<3>>
    /\ insert_task = NoneOpt

\* Where the event stream is: in the build while one is in flight, otherwise
\* in the scheduler's slot.
StreamHeld ==
    IF IsSome(insert_task) THEN Unwrap(insert_task).output ELSE pipe_line_events

\* C31: while a build is in flight the scheduler's slot is empty; starting a
\* build moves the slot's content into the build and completing it puts what
\* the build returns back into the slot; and no step of a pass changes what
\* stream is held, an empty slot included.
C31_EventStreamHasOneOwner ==
    /\ [](IsSome(insert_task) => pipe_line_events = NoneOpt)
    /\ [][ /\ (started' /= started) =>
                  /\ Unwrap(insert_task').output = pipe_line_events
                  /\ pipe_line_events' = NoneOpt
           /\ (completed' /= completed) =>
                  /\ pipe_line_events' = Unwrap(insert_task).output
                  /\ insert_task' = NoneOpt
           /\ (pc /= "idle" \/ pc' /= "idle") => StreamHeld' = StreamHeld
         ]_vars

\* A build has completed and the stream handed to the scheduler is back in
\* its slot.
C31_Witness ==
    /\ Len(completed) >= 1
    /\ insert_task = NoneOpt
    /\ IsSome(pipe_line_events)
    /\ completed[1].output = pipe_line_events

\* What the asynchronous side of the last call put on the one-shot channel,
\* worked out again from the call, the fields it started from and the answers
\* it received (None: the sender was dropped without sending).
LastSignal ==
    IF LastOp("initialize_block")
    THEN IF IsSome(call.arg)
         THEN initialize_block_async(call.arg, RpcOk(NoneOpt), recv[1]).signal
         ELSE initialize_block_async(call.arg, recv[1],
                  IF Len(recv) = 2 THEN recv[2] ELSE RpcErr("HttpClient")).signal
    ELSE IF LastOp("summarize_block")
    THEN summarize_block_async(Unwrap(PreLatest), recv[1]).signal
    ELSE IF LastOp("finalize_block")
    THEN finalize_block_async(PreNextPayloadIds[Unwrap(PreLatest)], recv[1]).signal
    ELSE commit_block_async(PreProposing[Unwrap(call.arg)][1],
                            PreProposing[Unwrap(call.arg)][2], recv[1]).signal

\* C32: in every call of initialize_block, summarize_block, finalize_block or
\* commit_block that started its asynchronous side, that side sent a result
\* on the channel, whatever the engine answered, and no call returns Other.
C32_SignalIsAlwaysSent ==
    /\ ret.tag /= "Other"
    /\ (call.op \in EngineOps /\ sent /= <<>>) =>
           /\ IsSome(LastSignal)
           /\ Unwrap(LastSignal).tag \in
                  {"Ok", "ApiError", "BlockNotReady", "UnknownBlock"}
           /\ Unwrap(LastSignal).tag /= "Ok" => ret.tag = Unwrap(LastSignal).tag

\* new_payload failed and commit_block returned the error its asynchronous
\* side sent.
C32_Witness ==
    /\ LastOp("commit_block")
    /\ sent /= <<>>
    /\ ~recv[1].ok
    /\ IsSome(LastSignal)
    /\ ret.tag = "ApiError"

\* C33: a call whose engine request is not answered has not returned; its
\* request is the one exchange outstanding, the call is one of the four that
\* talk to the engine, and the driver's fields are as the call found them;
\* outside such a call no exchange is outstanding.
C33_UnansweredRequestBlocks ==
    /\ (Len(sent) - Len(recv)) \in {0, 1}
    /\ (Len(sent) = Len(recv) + 1) <=> (thread = "blocked")
    /\ (thread = "blocked") <=> (ret = ResultBlocked)
    /\ (thread = "blocked") =>
           /\ call.op \in EngineOps
           /\ DriverUnchanged
           /\ \A i \in 1..Len(recv) : recv[i].ok

\* initialize_block(None) waits for the answer to its forkchoice_updated on a
\* driver that holds state.
C33_Witness ==
    /\ thread = "blocked"
    /\ LastOp("initialize_block")
    /\ Len(sent) = 2
    /\ Len(recv) = 1
    /\ DOMAIN proposing_payload_pairs /= {}

\* C34: a pass that has returned left a build in flight or the backlog
\* empty; a build that completes sends the pass round the loop again, and
\* the pass returns from the drive step only with the build still pending.
C34_PassDrainsTheBacklog ==
    /\ [](pc = "idle" => (IsSome(insert_task) \/ queued = <<>>))
    /\ [][ /\ (completed' /= completed) => (pc = "drive" /\ pc' = "ticker")
           /\ (pc = "select" /\ pc' = "idle") =>
                  (insert_task = NoneOpt /\ queued = <<>>)
           /\ (pc = "select" /\ insert_task = NoneOpt /\ queued /= <<>>) =>
                  (started' /= started /\ pc' = "drive")
         ]_vars

\* Two builds have completed and the pass has returned with nothing waiting.
C34_Witness ==
    /\ pc = "idle"
    /\ Len(completed) = 2
    /\ Len(enqueued) = 2
    /\ insert_task = NoneOpt

\* C35: an iteration of the loop that reaches the poll of the build either
\* breaks with the build pending or completes that build, whose attempt has
\* left the backlog; builds completed never outnumber attempts enqueued; and
\* with the ticker firing finitely often a pass at the top of the loop returns.
C35_PassTerminates ==
    /\ [][ (pc = "drive" /\ pc' /= pc) =>
               \/ /\ pc' = "idle"
                  /\ UNCHANGED <<completed, queued, started>>
               \/ /\ pc' = "ticker"
                  /\ Len(completed') = Len(completed) + 1
                  /\ completed'[Len(completed')].timestamp = started[Len(started)]
                  /\ started[Len(started)] \notin {queued[i] : i \in 1..Len(queued)}
         ]_vars
    /\ [](Len(completed) <= Len(enqueued) - Len(queued))
    /\ (pc = "ticker") ~> (pc = "idle")

\* An iteration completed the first build and the pass is at the top of the
\* loop again.
C35_Witness ==
    /\ pc = "ticker"
    /\ Len(completed) = 1
    /\ Len(started) = 1
    /\ queued = <<>>

\* C36: finalize_block on a driver whose latest_committed_id is unset returns
\* NoChainHead, which is not BlockNotReady, has no get_payload request among
\* the requests it sent, and leaves both maps as they were.
C36_FinalizeWithoutHead ==
    (LastOp("finalize_block") /\ PreLatest = NoneOpt) =>
        /\ ret.tag = "NoChainHead"
        /\ ret.tag /= "BlockNotReady"
        /\ \A i \in 1..Len(sent) : sent[i].method /= "get_payload_v2"
        /\ next_payload_id_pairs = PreNextPayloadIds
        /\ proposing_payload_pairs = PreProposing
        /\ thread = "running"

\* finalize_block called before any initialize_block succeeded.
C36_Witness ==
    /\ LastOp("finalize_block")
    /\ latest_committed_id = NoneOpt
    /\ initialized_ids = {}

C38_InitializeWithGivenId ==
    /\ (LastOp("initialize_block") /\ IsSome(call.arg)) =>
           /\ sent = <<ReqForkchoiceUpdated(Unwrap(call.arg))>>
           /\ \A i \in 1..Len(sent) : sent[i].method /= "get_block_by_number"
           /\ (recv[1].ok /\ is_valid(Unwrap(recv[1].val).payload_status.status)) =>
                  /\ ret = ResultOk
                  /\ latest_committed_id = call.arg
    /\ LastOp("initialize_block") =>
           /\ next_payload_id_pairs = PreNextPayloadIds
           /\ proposing_payload_pairs = PreProposing

\* A driver that built on one head is re-initialized with another id: the
\* head moves to it and the entries of the earlier head are still there.
C38_Witness ==
    /\ LastOp("initialize_block")
    /\ IsSome(call.arg)
    /\ ret = ResultOk
    /\ IsSome(PreLatest)
    /\ PreLatest /= call.arg
    /\ Unwrap(PreLatest) \in DOMAIN next_payload_id_pairs
    /\ proposing_payload_pairs /= EmptyMap

\* C39: finalize_block leaves latest_committed_id and next_payload_id_pairs
\* as they were, and proposing_payload_pairs too unless it returns a payload;
\* summarize_block leaves latest_committed_id and proposing_payload_pairs as
\* they were.
C39_FinalizeAndSummarizeFrames ==
    /\ LastOp("finalize_block") =>
           /\ latest_committed_id = PreLatest
           /\ next_payload_id_pairs = PreNextPayloadIds
           /\ (ret.tag /= "Ok") => proposing_payload_pairs = PreProposing
    /\ LastOp("summarize_block") =>
           /\ latest_committed_id = PreLatest
           /\ proposing_payload_pairs = PreProposing

\* get_payload failed for a head that already has a payload on file.
C39_Witness ==
    /\ LastOp("finalize_block")
    /\ sent /= <<>>
    /\ ~recv[1].ok
    /\ ret.tag = "ApiError"
    /\ proposing_payload_pairs /= EmptyMap

\* The variant each operation's blocking side matches on.
MatchedVariant ==
    IF LastOp("initialize_block") THEN "BlockId"
    ELSE IF LastOp("finalize_block") THEN "ExecutionPayload"
    ELSE "ForkchoiceUpdated"

\* C40: no call returns MismatchAsyncResultType, and the Ok result the
\* asynchronous side of a call sends carries the variant that call's blocking
\* side matches on.
C40_VariantsMatch ==
    /\ ret.tag /= "MismatchAsyncResultType"
    /\ (call.op \in EngineOps /\ sent /= <<>> /\ IsSome(LastSignal)
            /\ Unwrap(LastSignal).tag = "Ok") =>
           Unwrap(LastSignal).variant = MatchedVariant

\* finalize_block received an ExecutionPayload result and returned its payload.
C40_Witness ==
    /\ LastOp("finalize_block")
    /\ sent /= <<>>
    /\ IsSome(LastSignal)
    /\ Unwrap(LastSignal).variant = "ExecutionPayload"
    /\ ret.tag = "Ok"

====
